---------------------------- MODULE Spec2Model ----------------------------
(***************************************************************************)
(* A model of plugins/database/mysql/mysql.go: the MySQL credential        *)
(* lifecycle coordinator (NewUser, UpdateUser, DeleteUser), its batch       *)
(* executor executePreparedStatementsWithMap, and the lock it holds over    *)
(* the shared connection handle.                                            *)
(*                                                                          *)
(* Strings are sequences of atoms.  The atoms "{", "}", ";" and the         *)
(* whitespace atoms " ", "\n", "\t" are single characters, and so are the   *)
(* letters of the placeholder keys.  Any other atom (for instance           *)
(* "DROP USER '") stands for a run of ordinary characters that holds no     *)
(* brace, no semicolon, no leading or trailing whitespace, and is not a     *)
(* piece of a placeholder key, so that trimming, splitting and replacing    *)
(* act on a sequence of atoms exactly as they act on the text.              *)
(***************************************************************************)
EXTENDS Integers, Sequences, FiniteSets, TLC

(***************************************************************************)
(* Bounds of the model.                                                     *)
(***************************************************************************)
\* number of concurrent callers of one MySQL instance
NumProcs == 2

Procs == 1..NumProcs

(***************************************************************************)
(* Text helpers: strings.TrimSpace, strings.Split, strings.Replace.         *)
(***************************************************************************)
\* Faulty variant: a newline is not taken for whitespace
IsSpaceNoNewline(c) == c \in {" ", "\t"}

IsSpace(c) == c \in {" ", "\n", "\t"}

RECURSIVE TrimLeft(_)
TrimLeft(s) ==
    IF s = <<>> THEN <<>>
    ELSE IF IsSpace(Head(s)) THEN TrimLeft(Tail(s))
    ELSE s

RECURSIVE TrimRight(_)
TrimRight(s) ==
    IF s = <<>> THEN <<>>
    ELSE IF IsSpace(s[Len(s)]) THEN TrimRight(SubSeq(s, 1, Len(s) - 1))
    ELSE s

TrimSpace(s) == TrimRight(TrimLeft(s))

\* strings.Split(s, sep) for a one-character separator: always at least one part
RECURSIVE SplitFrom(_, _, _)
SplitFrom(s, sep, cur) ==
    IF s = <<>> THEN <<cur>>
    ELSE IF Head(s) = sep THEN <<cur>> \o SplitFrom(Tail(s), sep, <<>>)
    ELSE SplitFrom(Tail(s), sep, Append(cur, Head(s)))

Split(s, sep) == SplitFrom(s, sep, <<>>)

HasPrefix(s, pat) ==
    /\ Len(pat) <= Len(s)
    /\ SubSeq(s, 1, Len(pat)) = pat

\* strings.Replace(s, old, new, -1) for a non-empty old: every non-overlapping
\* occurrence, found left to right
RECURSIVE Replace(_, _, _)
Replace(s, old, new) ==
    IF s = <<>> THEN <<>>
    ELSE IF HasPrefix(s, old)
         THEN new \o Replace(SubSeq(s, Len(old) + 1, Len(s)), old, new)
    ELSE <<Head(s)>> \o Replace(Tail(s), old, new)

\* strings.Contains
RECURSIVE Contains(_, _)
Contains(s, pat) ==
    IF HasPrefix(s, pat) THEN TRUE
    ELSE IF s = <<>> THEN FALSE
    ELSE Contains(Tail(s), pat)

TrimAll(s) == [k \in 1..Len(s) |-> TrimSpace(s[k])]

(***************************************************************************)
(* Placeholder keys and the built-in statements.                           *)
(***************************************************************************)
KeyName == <<"n", "a", "m", "e">>
KeyUsername == <<"u", "s", "e", "r">> \o KeyName
KeyPassword == <<"p", "a", "s", "s", "w", "o", "r", "d">>
KeyExpiration == <<"e", "x", "p", "i", "r", "a", "t", "i", "o", "n">>

\* the text {{key}}
Marker(key) == <<"{", "{">> \o key \o <<"}", "}">>

defaultMysqlRevocationStmts ==
    <<"\n", "\t", "\t", "REVOKE ALL PRIVILEGES, GRANT OPTION FROM '">>
        \o Marker(KeyName) \o <<"'@'%'", ";", " ", "\n", "\t", "\t", "DROP USER '">>
        \o Marker(KeyName) \o <<"'@'%'", "\n", "\t">>

defaultMySQLRotateCredentialsSQL ==
    <<"\n", "\t", "\t", "ALTER USER '">> \o Marker(KeyUsername)
        \o <<"'@'%' IDENTIFIED BY '">> \o Marker(KeyPassword)
        \o <<"'", ";", "\n", "\t">>

(***************************************************************************)
(* strutil.ParseArbitraryStringSlice and dbutil.QueryHelper (sdk helpers).  *)
(***************************************************************************)
\* The parts of a template, split on the separator and trimmed.  The inputs
\* of the model are neither base64 nor JSON text.  (The trimmed text and its
\* parts are each bound to a name so that they are computed once.)
ParseArbitraryStringSlice(input, sep) ==
    IF TrimSpace(input) = <<>> THEN <<>>
    ELSE CHOOSE trimmed \in {TrimAll(parts) :
                                parts \in {Split(text, sep) :
                                              text \in {TrimSpace(input)}}} : TRUE

\* Replace {{k}} by data[k] for every key k of the map, one key after the
\* other in the order given (the iteration order of the map).
RECURSIVE QueryHelperIn(_, _, _)
QueryHelperIn(tpl, data, order) ==
    IF order = <<>> THEN tpl
    ELSE CHOOSE out \in
             {QueryHelperIn(replaced, data, Tail(order)) :
                 replaced \in {Replace(tpl, Marker(Head(order)), data[Head(order)])}} :
             TRUE

\* the orders in which a map's keys may be visited
KeyOrders(data) ==
    {o \in [1..Cardinality(DOMAIN data) -> DOMAIN data] :
        \A a, b \in DOMAIN o : a # b => o[a] # o[b]}

(***************************************************************************)
(* credsutil.GenerateUsername (sdk helper): "v", the display name and the   *)
(* role name cut to their budgets, a random part and the time, joined by    *)
(* "_" and cut to the total budget.                                         *)
(***************************************************************************)
DisplayNameLen == 13
LegacyDisplayNameLen == 5
MetadataLen == 10
LegacyMetadataLen == 4
UsernameLen == 32
LegacyUsernameLen == 16

Truncate(s, n) == IF Len(s) > n THEN SubSeq(s, 1, n) ELSE s

RECURSIVE JoinNonEmpty(_, _)
JoinNonEmpty(parts, sep) ==
    IF parts = <<>> THEN <<>>
    ELSE IF Head(parts) = <<>> THEN JoinNonEmpty(Tail(parts), sep)
    ELSE LET rest == JoinNonEmpty(Tail(parts), sep)
         IN  IF rest = <<>> THEN Head(parts) ELSE Head(parts) \o <<sep>> \o rest

\* the random part (20 characters) and the time (10 digits) of one call
RandomPart == [k \in 1..20 |-> "r"]
TimePart == [k \in 1..10 |-> "1"]

GenerateUsername(displayName, dispNameLen, roleName, roleNameLen, maxLen) ==
    Truncate(JoinNonEmpty(<<<<"v">>, Truncate(displayName, dispNameLen),
                            Truncate(roleName, roleNameLen), RandomPart, TimePart>>,
                          "_"),
             maxLen)

(***************************************************************************)
(* Requests.                                                                *)
(***************************************************************************)
tCreateGrant ==
    <<"CREATE USER '">> \o Marker(KeyName) \o <<"' IDENTIFIED BY '">>
        \o Marker(KeyPassword) \o <<"'", ";", " ", ";", "\n", "GRANT SELECT TO '">>
        \o Marker(KeyName) \o <<"'", ";", " ">>

tExpire ==
    <<" ", "ALTER USER '">> \o Marker(KeyUsername) \o <<"' VALID UNTIL '">>
        \o Marker(KeyExpiration) \o <<"'">>

tSetPassword ==
    <<"SET PASSWORD FOR '">> \o Marker(KeyName) \o <<"' = '">>
        \o Marker(KeyPassword) \o <<"'", ";">>

tDrop ==
    <<" ", ";", "DROP USER '">> \o Marker(KeyUsername) \o <<"'", " ", ";", "\n">>

\* a template of whitespace and semicolons only
tBlank == <<" ", ";", "\n", ";", "\t">>

\* The requests of a caller studied alone are drawn from the full sets; those of
\* callers that run together from the first, smaller ones.
CreationCommands(full) ==
    {<<>>, <<tExpire>>}
        \cup IF full
             THEN {<<tCreateGrant>>, <<tCreateGrant, tExpire>>, <<tBlank>>, <<<<>>>>}
             ELSE {}
RotationCommands(full) ==
    {<<>>} \cup IF full THEN {<<tSetPassword>>, <<tBlank>>} ELSE {}
RevocationCommands(full) ==
    {<<>>} \cup IF full THEN {<<tDrop>>, <<tBlank, <<>>>>} ELSE {}

\* the password of the connection the instance was configured with
ConnectionPassword == <<"root-pw">>

\* an account's name: some text, nothing, or a text with a ';' in it
Usernames(full) ==
    {<<"u", "1">>} \cup IF full THEN {<<>>, <<"u", ";", "1">>} ELSE {}
\* an account's password: some text, nothing, the connection's own password,
\* or a text with a ';' in it
Passwords(full) ==
    {<<"p", "w">>}
        \cup IF full THEN {<<>>, ConnectionPassword, <<"p", ";", "w">>} ELSE {}
DisplayNames == {<<"t", "o", "k", "e", "n", "x">>}
RoleNames == {<<"r", "o", "l", "e", "x">>}
\* req.Expiration.Format("2006-01-02 15:04:05-0700")
ExpirationStr == <<"2030-01-02", " ", "15:04:05-0700">>

NilPassword == [isNil |-> TRUE, NewPassword |-> <<>>, Commands |-> <<>>]

PasswordChanges(full) ==
    {NilPassword}
        \cup {[isNil |-> FALSE, NewPassword |-> pw, Commands |-> c] :
                pw \in Passwords(full), c \in RotationCommands(full)}

(***************************************************************************)
(* State.                                                                   *)
(***************************************************************************)
VARIABLES
    callers,  \* the callers that use the instance
    legacy,   \* MySQL.legacy: the naming scheme, fixed at construction
    mu,       \* the lock of the instance: 0 when free, else the holder
    pc,       \* where each caller is in its operation
    loc,      \* the operation's arguments and local variables
    ctx,      \* each caller's context: "live" or "cancelled"
    tx,       \* the transaction each caller opened: its state, its statements
              \* and whether their effects are visible in the database
    trace,    \* the calls each caller made on the lock and the database
    ret,      \* what each caller's operation returned
    render    \* a template being rendered on its own: see SpecRender

vars == <<callers, legacy, mu, pc, loc, ctx, tx, trace, ret, render>>

NoError == "nil"
ErrEmptyCreationStatement == "empty creation statements"
ErrNoChange == "no change requested"
ErrMissing == "must provide both username and password"
ErrGenerate == "error generating username"
ErrConnection == "connection error"
ErrBegin == "begin error"
ErrPrepare == "prepare error"
Err1295 == "Error 1295"
ErrExec == "exec error"
ErrCommit == "commit error"

NoLocals ==
    [op |-> "none", req |-> <<>>, statements |-> <<>>, queryMap |-> <<>>, username |-> <<>>,
     si |-> 0, parts |-> <<>>, qi |-> 0, query |-> <<>>, stmt |-> "nil",
     err |-> NoError, errText |-> <<>>, panicked |-> FALSE]

NoTx == [state |-> "none", log |-> <<>>, applied |-> FALSE]

NoRender ==
    [phase |-> "none", op |-> "none", tpl |-> <<>>, queryMap |-> <<>>,
     parts |-> <<>>, qi |-> 0, out |-> <<>>]

NoResult ==
    [username |-> <<>>, err |-> NoError, text |-> <<>>, wrap |-> "", panicked |-> FALSE]

Event(c, q, r) == [call |-> c, q |-> q, res |-> r]

\* whether the requests are drawn from the full sets: one caller, studied alone
Full == Cardinality(callers) = 1

InitState ==
    /\ mu = 0
    /\ pc = [p \in Procs |-> "idle"]
    /\ loc = [p \in Procs |-> NoLocals]
    /\ ctx = [p \in Procs |-> "live"]
    /\ tx = [p \in Procs |-> NoTx]
    /\ trace = [p \in Procs |-> <<>>]
    /\ ret = [p \in Procs |-> NoResult]

\* one caller, either naming scheme
Init ==
    /\ callers = {1}
    /\ legacy \in BOOLEAN
    /\ render = NoRender
    /\ InitState

\* every caller, on a modern instance
InitConcurrent ==
    /\ callers = Procs
    /\ legacy = FALSE
    /\ render = NoRender
    /\ InitState

(***************************************************************************)
(* The database as database/sql shows it.  A call that is handed a          *)
(* cancelled context, or a transaction that is no longer open, fails.       *)
(***************************************************************************)
TxUsable(p) == ctx[p] = "live" /\ tx[p].state = "open"

BeginOutcomes(p) == IF ctx[p] = "live" THEN {NoError, ErrBegin} ELSE {ErrBegin}
PrepareOutcomes(p) ==
    IF TxUsable(p) THEN {NoError, Err1295, ErrPrepare} ELSE {ErrPrepare}
ExecOutcomes(p) == IF TxUsable(p) THEN {NoError, ErrExec} ELSE {ErrExec}
\* a failed commit leaves the outcome unknown: applied or discarded
CommitOutcomes(p) ==
    IF TxUsable(p) THEN {"committed", "applied", "discarded"} ELSE {"refused"}

\* the message of the driver's error for a statement that failed: it may quote
\* the text of the statement; that of error 1295 does not
ErrorTexts(out, query) ==
    IF out \in {ErrPrepare, ErrExec} THEN {<<>>, query} ELSE {<<>>}

\* the connection producer's SecretValues(): what to hide, and what to show
\* in its place
SecretValues == (ConnectionPassword :> <<"[password]">>)

\* the error sanitizer New wraps the plugin with: every secret value found in
\* the text of a returned error is replaced
RECURSIVE SanitizeIn(_, _, _)
SanitizeIn(text, secrets, keys) ==
    IF keys = {} THEN text
    ELSE LET k == CHOOSE k \in keys : TRUE
         IN  SanitizeIn(IF k = <<>> THEN text ELSE Replace(text, k, secrets[k]),
                        secrets, keys \ {k})

Sanitize(text) == SanitizeIn(text, SecretValues, DOMAIN SecretValues)

Log(p, e) == trace' = [trace EXCEPT ![p] = Append(@, e)]

\* the lock of the connection producer, embedded in MySQL: Lock waits until the
\* lock is free and takes it, Unlock frees it
MutexLock(p) == mu = 0 /\ mu' = p
MutexUnlock == mu' = 0

\* the connection producer's Connection(ctx): a handle or an error
ConnectionOutcomes == {NoError, ErrConnection}

\* tx.ExecContext and stmt.ExecContext: a statement that succeeds joins the
\* transaction
TxExec(p, q, out) ==
    tx' = IF out = NoError THEN [tx EXCEPT ![p].log = Append(@, q)] ELSE tx

\* tx.Commit
TxCommit(p, out) ==
    tx' = IF out = "refused" THEN tx
          ELSE [tx EXCEPT ![p].state =
                              IF out = "committed" THEN "committed" ELSE "unknown",
                          ![p].applied = (out \in {"committed", "applied"})]

\* tx.Rollback: ends an open transaction and drops its statements; does
\* nothing to one that has ended
TxRollback(p) ==
    tx' = IF tx[p].state = "open"
          THEN [tx EXCEPT ![p].state = "rolledback"] ELSE tx

(***************************************************************************)
(* NewUser, UpdateUser and changeUserPassword up to the batch executor.     *)
(***************************************************************************)
\* dbutil.QueryHelper: the texts the map can produce, one per iteration order
QueryHelper(tpl, data) ==
    {QueryHelperIn(text, data, o) : o \in KeyOrders(data), text \in {tpl}}

\* Faulty variant: the budgets of the modern scheme whatever the instance
generateUsernameModernOnly(displayName, roleName) ==
    GenerateUsername(displayName, DisplayNameLen, roleName, MetadataLen, UsernameLen)

generateUsername(displayName, roleName) ==
    IF legacy
    THEN GenerateUsername(displayName, LegacyDisplayNameLen,
                          roleName, LegacyMetadataLen, LegacyUsernameLen)
    ELSE GenerateUsername(displayName, DisplayNameLen,
                          roleName, MetadataLen, UsernameLen)

NewUserQueryMap(username, password, expirationStr) ==
    (KeyName :> username) @@ (KeyUsername :> username)
        @@ (KeyPassword :> password) @@ (KeyExpiration :> expirationStr)

\* Faulty variant: the rotation map is given an expiration too
RotateQueryMapWithExpiration(username, password) ==
    (KeyName :> username) @@ (KeyUsername :> username) @@ (KeyPassword :> password)
        @@ (KeyExpiration :> ExpirationStr)

RotateQueryMap(username, password) ==
    (KeyName :> username) @@ (KeyUsername :> username) @@ (KeyPassword :> password)

RotateStatements(rotateStatements) ==
    IF Len(rotateStatements) = 0
    THEN <<defaultMySQLRotateCredentialsSQL>> ELSE rotateStatements

RevocationStmts(commands) ==
    IF Len(commands) = 0 THEN <<defaultMysqlRevocationStmts>> ELSE commands

\* an operation returns without having called the batch executor
ReturnEarly(p, op, req, e, wrap) ==
    /\ pc' = [pc EXCEPT ![p] = "done"]
    /\ loc' = [loc EXCEPT ![p] = [NoLocals EXCEPT !.op = op, !.req = req]]
    /\ ret' = [ret EXCEPT ![p] = [NoResult EXCEPT !.err = e, !.wrap = wrap]]
    /\ UNCHANGED <<callers, legacy, render, mu, ctx, tx, trace>>

\* an operation calls executePreparedStatementsWithMap(ctx, statements, queryMap)
CallExecute(p, op, req, username, statements, queryMap) ==
    /\ pc' = [pc EXCEPT ![p] = "lock"]
    /\ loc' = [loc EXCEPT ![p] = [NoLocals EXCEPT !.op = op, !.req = req,
                                     !.username = username,
                                     !.statements = statements,
                                     !.queryMap = queryMap]]
    /\ UNCHANGED <<callers, legacy, render, mu, ctx, tx, trace, ret>>

NewUser(p) ==
    /\ pc[p] = "idle"
    /\ \E commands \in CreationCommands(Full), password \in Passwords(Full),
          displayName \in DisplayNames, roleName \in RoleNames,
          generated \in BOOLEAN :
          LET req == [Commands |-> commands, Password |-> password,
                      DisplayName |-> displayName, RoleName |-> roleName]
          IN  IF Len(commands) = 0
              THEN ReturnEarly(p, "NewUser", req, ErrEmptyCreationStatement, "")
              ELSE IF ~generated
              THEN ReturnEarly(p, "NewUser", req, ErrGenerate, "")
              ELSE LET username == generateUsername(displayName, roleName)
                   IN  CallExecute(p, "NewUser", req, username, commands,
                                   NewUserQueryMap(username, password,
                                                   ExpirationStr))

\* Faulty variant: the username and the password are not checked
changeUserPasswordUnchecked(p, req, username, password, rotateStatements) ==
    CallExecute(p, "UpdateUser", req, username, RotateStatements(rotateStatements),
                RotateQueryMap(username, password))

changeUserPassword(p, req, username, password, rotateStatements) ==
    IF username = <<>> \/ password = <<>>
    THEN ReturnEarly(p, "UpdateUser", req, ErrMissing, "failed to change password")
    ELSE CallExecute(p, "UpdateUser", req, username,
                     RotateStatements(rotateStatements),
                     RotateQueryMap(username, password))

\* Faulty variant: a request with no password change is refused
UpdateUserPasswordRequired(p) ==
    /\ pc[p] = "idle"
    /\ \E username \in Usernames(Full), change \in PasswordChanges(Full),
          hasExpiration \in BOOLEAN :
          LET req == [Username |-> username, Password |-> change,
                      hasExpiration |-> hasExpiration]
          IN  IF change.isNil
              THEN ReturnEarly(p, "UpdateUser", req, ErrNoChange, "")
              ELSE changeUserPassword(p, req, username, change.NewPassword,
                                      change.Commands)

UpdateUser(p) ==
    /\ pc[p] = "idle"
    /\ \E username \in Usernames(Full), change \in PasswordChanges(Full),
          hasExpiration \in BOOLEAN :
          LET req == [Username |-> username, Password |-> change,
                      hasExpiration |-> hasExpiration]
          IN  IF change.isNil /\ ~hasExpiration
              THEN ReturnEarly(p, "UpdateUser", req, ErrNoChange, "")
              ELSE IF ~change.isNil
              THEN changeUserPassword(p, req, username, change.NewPassword,
                                      change.Commands)
              ELSE ReturnEarly(p, "UpdateUser", req, NoError, "")

(***************************************************************************)
(* executePreparedStatementsWithMap, one step at a time.                    *)
(***************************************************************************)
\* Faulty variant: no part is skipped
IsEmptyStatementNever(query) == FALSE

\* if len(query) == 0 { continue }
IsEmptyStatement(query) == Len(query) = 0

\* m.Lock()
ExecLock(p) ==
    /\ pc[p] = "lock"
    /\ MutexLock(p)
    /\ pc' = [pc EXCEPT ![p] = "conn"]
    /\ Log(p, Event("Lock", <<>>, NoError))
    /\ UNCHANGED <<callers, legacy, render, loc, ctx, tx, ret>>

\* Faulty variant: a failed call of the connection provider is made again
ExecGetConnectionRetry(p) ==
    /\ pc[p] = "conn"
    /\ \E out \in ConnectionOutcomes :
          /\ pc' = [pc EXCEPT ![p] = IF out = NoError THEN "begin" ELSE "conn"]
          /\ loc' = [loc EXCEPT ![p].err = out]
          /\ Log(p, Event("Connection", <<>>, out))
    /\ Len(trace[p]) < 4
    /\ UNCHANGED <<callers, legacy, render, mu, ctx, tx, ret>>

\* db, err := m.getConnection(ctx); a failure returns err
ExecGetConnection(p) ==
    /\ pc[p] = "conn"
    /\ \E out \in ConnectionOutcomes :
          /\ pc' = [pc EXCEPT ![p] = IF out = NoError THEN "begin" ELSE "unlock"]
          /\ loc' = [loc EXCEPT ![p].err = out]
          /\ Log(p, Event("Connection", <<>>, out))
    /\ UNCHANGED <<callers, legacy, render, mu, ctx, tx, ret>>

\* Faulty variant: the transaction is begun under a context of its own
ExecBeginTxBackground(p) ==
    /\ pc[p] = "begin"
    /\ \E out \in {NoError, ErrBegin} :
          /\ pc' = [pc EXCEPT ![p] = IF out = NoError THEN "loop" ELSE "unlock"]
          /\ loc' = [loc EXCEPT ![p].err = out]
          /\ tx' = IF out = NoError
                   THEN [tx EXCEPT ![p] = [NoTx EXCEPT !.state = "open"]]
                   ELSE tx
          /\ Log(p, Event("BeginTx", <<>>, out))
    /\ UNCHANGED <<callers, legacy, render, mu, ctx, ret>>

\* tx, err := db.BeginTx(ctx, nil); a failure returns err, a success defers
\* tx.Rollback()
ExecBeginTx(p) ==
    /\ pc[p] = "begin"
    /\ \E out \in BeginOutcomes(p) :
          /\ pc' = [pc EXCEPT ![p] = IF out = NoError THEN "loop" ELSE "unlock"]
          /\ loc' = [loc EXCEPT ![p].err = out]
          /\ tx' = IF out = NoError
                   THEN [tx EXCEPT ![p] = [NoTx EXCEPT !.state = "open"]]
                   ELSE tx
          /\ Log(p, Event("BeginTx", <<>>, out))
    /\ UNCHANGED <<callers, legacy, render, mu, ctx, ret>>

\* Faulty variant: a template is rendered whole and split afterwards
ExecNextQueryRenderFirst(p) ==
    /\ pc[p] = "loop"
    /\ LET l == loc[p]
       IN  IF l.qi < Len(l.parts)
           THEN LET query == TrimSpace(l.parts[l.qi + 1])
                IN  IF IsEmptyStatement(query)
                    THEN /\ loc' = [loc EXCEPT ![p].qi = l.qi + 1]
                         /\ pc' = pc
                    ELSE \E q \in QueryHelper(query, l.queryMap) :
                            /\ loc' = [loc EXCEPT ![p].qi = l.qi + 1,
                                                  ![p].query = q,
                                                  ![p].stmt = "nil"]
                            /\ pc' = [pc EXCEPT ![p] = "prepare"]
           ELSE IF l.si < Len(l.statements)
           THEN /\ loc' = [loc EXCEPT
                             ![p].si = l.si + 1,
                             ![p].parts =
                                 ParseArbitraryStringSlice(
                                     QueryHelperIn(l.statements[l.si + 1], l.queryMap,
                                                   CHOOSE o \in KeyOrders(l.queryMap) : TRUE),
                                     ";"),
                             ![p].qi = 0]
                /\ pc' = pc
           ELSE /\ loc' = loc
                /\ pc' = [pc EXCEPT ![p] = "commit"]
    /\ UNCHANGED <<callers, legacy, render, mu, ctx, tx, trace, ret>>

\* the two range loops: the next part of the current template, trimmed, skipped
\* when empty and else rendered; then the next template; then the commit
ExecNextQuery(p) ==
    /\ pc[p] = "loop"
    /\ LET l == loc[p]
       IN  IF l.qi < Len(l.parts)
           THEN LET query == TrimSpace(l.parts[l.qi + 1])
                IN  IF IsEmptyStatement(query)
                    THEN /\ loc' = [loc EXCEPT ![p].qi = l.qi + 1]
                         /\ pc' = pc
                    ELSE \E q \in QueryHelper(query, l.queryMap) :
                            /\ loc' = [loc EXCEPT ![p].qi = l.qi + 1,
                                                  ![p].query = q,
                                                  ![p].stmt = "nil"]
                            /\ pc' = [pc EXCEPT ![p] = "prepare"]
           ELSE IF l.si < Len(l.statements)
           THEN /\ loc' = [loc EXCEPT
                             ![p].si = l.si + 1,
                             ![p].parts =
                                 ParseArbitraryStringSlice(l.statements[l.si + 1], ";"),
                             ![p].qi = 0]
                /\ pc' = pc
           ELSE /\ loc' = loc
                /\ pc' = [pc EXCEPT ![p] = "commit"]
    /\ UNCHANGED <<callers, legacy, render, mu, ctx, tx, trace, ret>>

\* Faulty variant: every prepare error is taken for error 1295
ExecPrepareContextAnyError(p) ==
    /\ pc[p] = "prepare"
    /\ \E out \in PrepareOutcomes(p) :
          /\ pc' = [pc EXCEPT ![p] = IF out = NoError THEN "stmtexec" ELSE "direct"]
          /\ \E text \in ErrorTexts(out, loc[p].query) :
                loc' = [loc EXCEPT ![p].err = out,
                                   ![p].errText = text,
                                   ![p].stmt = IF out = NoError THEN "open" ELSE "nil"]
          /\ Log(p, Event("Prepare", loc[p].query, out))
    /\ UNCHANGED <<callers, legacy, render, mu, ctx, tx, ret>>

\* stmt, err := tx.PrepareContext(ctx, query): on error 1295 go on to execute
\* the text directly, on any other error return it
ExecPrepareContext(p) ==
    /\ pc[p] = "prepare"
    /\ \E out \in PrepareOutcomes(p) :
          /\ pc' = [pc EXCEPT ![p] =
                       CASE out = NoError -> "stmtexec"
                         [] out = Err1295 -> "direct"
                         [] OTHER -> "rollback"]
          /\ \E text \in ErrorTexts(out, loc[p].query) :
                loc' = [loc EXCEPT ![p].err = out,
                                   ![p].errText = text,
                                   ![p].stmt = IF out = NoError THEN "open" ELSE "nil"]
          /\ Log(p, Event("Prepare", loc[p].query, out))
    /\ UNCHANGED <<callers, legacy, render, mu, ctx, tx, ret>>

\* _, err = tx.ExecContext(ctx, query) after error 1295: on success continue,
\* on error stmt.Close() and return err
ExecDirect(p) ==
    /\ pc[p] = "direct"
    /\ \E out \in ExecOutcomes(p) :
          /\ pc' = [pc EXCEPT ![p] = IF out = NoError THEN "loop" ELSE "errclose"]
          /\ \E text \in ErrorTexts(out, loc[p].query) :
                loc' = [loc EXCEPT ![p].err = out, ![p].errText = text]
          /\ TxExec(p, loc[p].query, out)
          /\ Log(p, Event("Exec", loc[p].query, out))
    /\ UNCHANGED <<callers, legacy, render, mu, ctx, ret>>

\* Faulty variant: an execution error is ignored and the batch goes on
ExecStmtExecIgnoringError(p) ==
    /\ pc[p] = "stmtexec"
    /\ \E out \in ExecOutcomes(p) :
          /\ pc' = [pc EXCEPT ![p] = "close"]
          /\ loc' = [loc EXCEPT ![p].err = NoError]
          /\ TxExec(p, loc[p].query, out)
          /\ Log(p, Event("StmtExec", loc[p].query, out))
    /\ UNCHANGED <<callers, legacy, render, mu, ctx, ret>>

\* stmt.ExecContext(ctx): on error stmt.Close() and return err
ExecStmtExec(p) ==
    /\ pc[p] = "stmtexec"
    /\ \E out \in ExecOutcomes(p) :
          /\ pc' = [pc EXCEPT ![p] = IF out = NoError THEN "close" ELSE "errclose"]
          /\ \E text \in ErrorTexts(out, loc[p].query) :
                loc' = [loc EXCEPT ![p].err = out, ![p].errText = text]
          /\ TxExec(p, loc[p].query, out)
          /\ Log(p, Event("StmtExec", loc[p].query, out))
    /\ UNCHANGED <<callers, legacy, render, mu, ctx, ret>>

\* (*sql.Stmt).Close: a nil statement panics with a nil pointer dereference
StmtClose(p) ==
    /\ loc' = [loc EXCEPT ![p].stmt = IF @ = "nil" THEN "nil" ELSE "closed",
                          ![p].panicked = (loc[p].stmt = "nil")]
    /\ Log(p, Event("Close", loc[p].query,
                    IF loc[p].stmt = "nil" THEN "panic" ELSE NoError))

\* Faulty variant: the statement is left open after a successful execution
ExecStmtCloseLeft(p) ==
    /\ pc[p] = "close"
    /\ pc' = [pc EXCEPT ![p] = "loop"]
    /\ UNCHANGED <<callers, legacy, render, mu, loc, ctx, tx, trace, ret>>

\* stmt.Close() after a successful execution, then the next part
ExecStmtClose(p) ==
    /\ pc[p] = "close"
    /\ StmtClose(p)
    /\ pc' = [pc EXCEPT ![p] = "loop"]
    /\ UNCHANGED <<callers, legacy, render, mu, ctx, tx, ret>>

\* Faulty variant: the rollback is not deferred: an error path returns without it
ExecErrCloseNoRollback(p) ==
    /\ pc[p] = "errclose"
    /\ StmtClose(p)
    /\ pc' = [pc EXCEPT ![p] = "unlock"]
    /\ UNCHANGED <<callers, legacy, render, mu, ctx, tx, ret>>

\* stmt.Close() before return err, on both error paths
ExecErrClose(p) ==
    /\ pc[p] = "errclose"
    /\ StmtClose(p)
    /\ pc' = [pc EXCEPT ![p] = "rollback"]
    /\ UNCHANGED <<callers, legacy, render, mu, ctx, tx, ret>>

\* err := tx.Commit(); the error, if any, is returned
ExecCommit(p) ==
    /\ pc[p] = "commit"
    /\ \E out \in CommitOutcomes(p) :
          /\ TxCommit(p, out)
          /\ loc' = [loc EXCEPT ![p].err =
                        IF out = "committed" THEN NoError ELSE ErrCommit]
          /\ Log(p, Event("Commit", <<>>,
                          IF out = "committed" THEN NoError ELSE ErrCommit))
    /\ pc' = [pc EXCEPT ![p] = "rollback"]
    /\ UNCHANGED <<callers, legacy, render, mu, ctx, ret>>

\* the deferred _ = tx.Rollback()
ExecRollback(p) ==
    /\ pc[p] = "rollback"
    /\ TxRollback(p)
    /\ Log(p, Event("Rollback", <<>>, NoError))
    /\ pc' = [pc EXCEPT ![p] = "unlock"]
    /\ UNCHANGED <<callers, legacy, render, mu, loc, ctx, ret>>

\* what NewUser and UpdateUser return once the batch executor has returned,
\* the error having gone through the sanitizer
Returned(l) ==
    IF l.panicked
    THEN [NoResult EXCEPT !.panicked = TRUE]
    ELSE IF l.op = "NewUser"
    THEN [NoResult EXCEPT !.err = l.err,
                          !.text = Sanitize(l.errText),
                          !.username = IF l.err = NoError THEN l.username ELSE <<>>]
    ELSE [NoResult EXCEPT !.err = l.err,
                          !.text = Sanitize(l.errText),
                          !.wrap = IF l.err = NoError THEN ""
                                   ELSE "failed to change password"]

\* the deferred m.Unlock(), and the return to the caller
ExecUnlock(p) ==
    /\ pc[p] = "unlock"
    /\ MutexUnlock
    /\ Log(p, Event("Unlock", <<>>, NoError))
    /\ ret' = [ret EXCEPT ![p] = Returned(loc[p])]
    /\ pc' = [pc EXCEPT ![p] = "done"]
    /\ UNCHANGED <<callers, legacy, render, loc, ctx, tx>>

(***************************************************************************)
(* DeleteUser, one step at a time.                                          *)
(***************************************************************************)
\* the call: the request's username and revocation statements
DeleteUser(p) ==
    /\ pc[p] = "idle"
    /\ \E username \in Usernames(Full), commands \in RevocationCommands(Full) :
          /\ loc' = [loc EXCEPT ![p] = [NoLocals EXCEPT
                                           !.op = "DeleteUser",
                                           !.req = [Username |-> username,
                                                    Commands |-> commands],
                                           !.username = username,
                                           !.statements = commands]]
    /\ pc' = [pc EXCEPT ![p] = "d_lock"]
    /\ UNCHANGED <<callers, legacy, render, mu, ctx, tx, trace, ret>>

\* Faulty variant: DeleteUser goes on without taking the lock
DeleteLockMissing(p) ==
    /\ pc[p] = "d_lock"
    /\ pc' = [pc EXCEPT ![p] = "d_conn"]
    /\ Log(p, Event("Lock", <<>>, NoError))
    /\ UNCHANGED <<callers, legacy, render, mu, loc, ctx, tx, ret>>

\* m.Lock()
DeleteLock(p) ==
    /\ pc[p] = "d_lock"
    /\ MutexLock(p)
    /\ pc' = [pc EXCEPT ![p] = "d_conn"]
    /\ Log(p, Event("Lock", <<>>, NoError))
    /\ UNCHANGED <<callers, legacy, render, loc, ctx, tx, ret>>

\* Faulty variant: a failed call of the connection provider returns with the
\* lock still held
DeleteGetConnectionLockKept(p) ==
    /\ pc[p] = "d_conn"
    /\ \E out \in ConnectionOutcomes :
          /\ pc' = [pc EXCEPT ![p] = IF out = NoError THEN "d_begin" ELSE "done"]
          /\ loc' = [loc EXCEPT ![p].err = out,
                                ![p].statements =
                                    IF out = NoError THEN RevocationStmts(@) ELSE @]
          /\ ret' = IF out = NoError THEN ret
                    ELSE [ret EXCEPT ![p] = [NoResult EXCEPT !.err = out]]
          /\ Log(p, Event("Connection", <<>>, out))
    /\ UNCHANGED <<callers, legacy, render, mu, ctx, tx>>

\* db, err := m.getConnection(ctx); then the default revocation statements
\* when the request has none
DeleteGetConnection(p) ==
    /\ pc[p] = "d_conn"
    /\ \E out \in ConnectionOutcomes :
          /\ pc' = [pc EXCEPT ![p] = IF out = NoError THEN "d_begin" ELSE "d_unlock"]
          /\ loc' = [loc EXCEPT ![p].err = out,
                                ![p].statements =
                                    IF out = NoError THEN RevocationStmts(@) ELSE @]
          /\ Log(p, Event("Connection", <<>>, out))
    /\ UNCHANGED <<callers, legacy, render, mu, ctx, tx, ret>>

\* tx, err := db.BeginTx(ctx, nil); defer tx.Rollback()
DeleteBeginTx(p) ==
    /\ pc[p] = "d_begin"
    /\ \E out \in BeginOutcomes(p) :
          /\ pc' = [pc EXCEPT ![p] = IF out = NoError THEN "d_loop" ELSE "d_unlock"]
          /\ loc' = [loc EXCEPT ![p].err = out]
          /\ tx' = IF out = NoError
                   THEN [tx EXCEPT ![p] = [NoTx EXCEPT !.state = "open"]]
                   ELSE tx
          /\ Log(p, Event("BeginTx", <<>>, out))
    /\ UNCHANGED <<callers, legacy, render, mu, ctx, ret>>

\* Faulty variant: only {{username}} is replaced
DeleteQueryUsernameOnly(query, username) ==
    Replace(query, Marker(KeyUsername), username)

\* the text of a revocation statement: {{name}} and {{username}} replaced
DeleteQuery(query, username) ==
    CHOOSE out \in
        {Replace(named, Marker(KeyUsername), username) :
            named \in {Replace(text, Marker(KeyName), username) : text \in {query}}} :
        TRUE

\* the two range loops of DeleteUser
DeleteNextQuery(p) ==
    /\ pc[p] = "d_loop"
    /\ LET l == loc[p]
       IN  IF l.qi < Len(l.parts)
           THEN LET query == TrimSpace(l.parts[l.qi + 1])
                IN  IF IsEmptyStatement(query)
                    THEN /\ loc' = [loc EXCEPT ![p].qi = l.qi + 1]
                         /\ pc' = pc
                    ELSE /\ loc' = [loc EXCEPT ![p].qi = l.qi + 1,
                                               ![p].query =
                                                   DeleteQuery(query, l.username)]
                         /\ pc' = [pc EXCEPT ![p] = "d_exec"]
           ELSE IF l.si < Len(l.statements)
           THEN /\ loc' = [loc EXCEPT
                             ![p].si = l.si + 1,
                             ![p].parts =
                                 ParseArbitraryStringSlice(l.statements[l.si + 1], ";"),
                             ![p].qi = 0]
                /\ pc' = pc
           ELSE /\ loc' = loc
                /\ pc' = [pc EXCEPT ![p] = "d_commit"]
    /\ UNCHANGED <<callers, legacy, render, mu, ctx, tx, trace, ret>>

\* _, err = tx.ExecContext(ctx, query); an error is returned
DeleteExec(p) ==
    /\ pc[p] = "d_exec"
    /\ \E out \in ExecOutcomes(p) :
          /\ pc' = [pc EXCEPT ![p] = IF out = NoError THEN "d_loop" ELSE "d_rollback"]
          /\ \E text \in ErrorTexts(out, loc[p].query) :
                loc' = [loc EXCEPT ![p].err = out, ![p].errText = text]
          /\ TxExec(p, loc[p].query, out)
          /\ Log(p, Event("Exec", loc[p].query, out))
    /\ UNCHANGED <<callers, legacy, render, mu, ctx, ret>>

\* err = tx.Commit(); return err
DeleteCommit(p) ==
    /\ pc[p] = "d_commit"
    /\ \E out \in CommitOutcomes(p) :
          /\ TxCommit(p, out)
          /\ loc' = [loc EXCEPT ![p].err =
                        IF out = "committed" THEN NoError ELSE ErrCommit]
          /\ Log(p, Event("Commit", <<>>,
                          IF out = "committed" THEN NoError ELSE ErrCommit))
    /\ pc' = [pc EXCEPT ![p] = "d_rollback"]
    /\ UNCHANGED <<callers, legacy, render, mu, ctx, ret>>

\* the deferred tx.Rollback()
DeleteRollback(p) ==
    /\ pc[p] = "d_rollback"
    /\ TxRollback(p)
    /\ Log(p, Event("Rollback", <<>>, NoError))
    /\ pc' = [pc EXCEPT ![p] = "d_unlock"]
    /\ UNCHANGED <<callers, legacy, render, mu, loc, ctx, ret>>

\* the deferred m.Unlock(), and the return
DeleteUnlock(p) ==
    /\ pc[p] = "d_unlock"
    /\ MutexUnlock
    /\ Log(p, Event("Unlock", <<>>, NoError))
    /\ ret' = [ret EXCEPT ![p] = [NoResult EXCEPT !.err = loc[p].err,
                                                  !.text = Sanitize(loc[p].errText)]]
    /\ pc' = [pc EXCEPT ![p] = "done"]
    /\ UNCHANGED <<callers, legacy, render, loc, ctx, tx>>

(***************************************************************************)
(* The caller's context, and database/sql's watch over it.                  *)
(***************************************************************************)
\* the caller cancels the context of an operation that has not returned
Cancel(p) ==
    /\ pc[p] \notin {"idle", "done"}
    /\ ctx[p] = "live"
    /\ ctx' = [ctx EXCEPT ![p] = "cancelled"]
    /\ Log(p, Event("Cancel", <<>>, NoError))
    /\ UNCHANGED <<callers, legacy, render, mu, pc, loc, tx, ret>>

\* database/sql rolls back an open transaction whose context is cancelled
AwaitDone(p) ==
    /\ ctx[p] = "cancelled"
    /\ tx[p].state = "open"
    /\ TxRollback(p)
    /\ UNCHANGED <<callers, legacy, render, mu, pc, loc, ctx, trace, ret>>

Next ==
    \E p \in callers :
        \/ NewUser(p)
        \/ UpdateUser(p)
        \/ DeleteUser(p)
        \/ ExecLock(p)
        \/ ExecGetConnection(p)
        \/ ExecBeginTx(p)
        \/ ExecNextQuery(p)
        \/ ExecPrepareContext(p)
        \/ ExecDirect(p)
        \/ ExecStmtExec(p)
        \/ ExecStmtClose(p)
        \/ ExecErrClose(p)
        \/ ExecCommit(p)
        \/ ExecRollback(p)
        \/ ExecUnlock(p)
        \/ DeleteLock(p)
        \/ DeleteGetConnection(p)
        \/ DeleteBeginTx(p)
        \/ DeleteNextQuery(p)
        \/ DeleteExec(p)
        \/ DeleteCommit(p)
        \/ DeleteRollback(p)
        \/ DeleteUnlock(p)
        \/ Cancel(p)
        \/ AwaitDone(p)

Spec == Init /\ [][Next]_vars

SpecConcurrent == InitConcurrent /\ [][Next]_vars

\* the steps of an operation under way that need nothing from its caller: every
\* call on the lock and on the database returns, and the caller runs on
Progress(p) ==
    \/ ExecLock(p)
    \/ ExecGetConnection(p)
    \/ ExecBeginTx(p)
    \/ ExecNextQuery(p)
    \/ ExecPrepareContext(p)
    \/ ExecDirect(p)
    \/ ExecStmtExec(p)
    \/ ExecStmtClose(p)
    \/ ExecErrClose(p)
    \/ ExecCommit(p)
    \/ ExecRollback(p)
    \/ ExecUnlock(p)
    \/ DeleteLock(p)
    \/ DeleteGetConnection(p)
    \/ DeleteBeginTx(p)
    \/ DeleteNextQuery(p)
    \/ DeleteExec(p)
    \/ DeleteCommit(p)
    \/ DeleteRollback(p)
    \/ DeleteUnlock(p)

\* when an operation under way can take a step: always, but for a caller that
\* waits for a lock that is held
CanProgress(p) ==
    /\ pc[p] \notin {"idle", "done"}
    /\ pc[p] \in {"lock", "d_lock"} => mu = 0

\* weak fairness of the steps of caller p, WF_vars(Progress(p)), with the
\* enabling condition of those steps written out
Fair(p) == []<>(~CanProgress(p)) \/ []<><<Progress(p)>>_vars

\* concurrent callers, each of which goes on as long as it can
SpecLive == SpecConcurrent /\ \A p \in Procs : Fair(p)

(***************************************************************************)
(* The rendering of one template, on its own: the loop body of the batch    *)
(* executor up to dbutil.QueryHelper, with the map NewUser or                *)
(* changeUserPassword builds, over every template of a few pieces.          *)
(***************************************************************************)
\* the greatest number of pieces in a template
MaxPieces == 3

KeyOther == <<"i", "d">>

Pieces ==
    {Marker(KeyName), Marker(KeyPassword), Marker(KeyExpiration), Marker(KeyOther),
     <<"{">>, <<"}">>, <<";">>, <<" ">>, <<"x">>}

RECURSIVE TemplatesOf(_)
TemplatesOf(n) ==
    IF n = 0 THEN {<<>>}
    ELSE TemplatesOf(n - 1)
            \cup {t \o piece : t \in TemplatesOf(n - 1), piece \in Pieces}

Templates == TemplatesOf(MaxPieces)

\* the values a request may carry: plain, empty, or holding marker text
RenderPasswords == {<<"p", "w">>, <<>>, Marker(KeyName), Marker(KeyOther)}
RenderUsername == <<"u", "1">>

InitRender ==
    /\ callers = {}
    /\ legacy = FALSE
    /\ InitState
    /\ \E tpl \in Templates, password \in RenderPasswords,
          op \in {"NewUser", "UpdateUser"} :
          render = [NoRender EXCEPT
                       !.phase = "parse", !.op = op, !.tpl = tpl,
                       !.queryMap =
                           IF op = "NewUser"
                           THEN NewUserQueryMap(RenderUsername, password,
                                                ExpirationStr)
                           ELSE RotateQueryMap(RenderUsername, password)]

\* strutil.ParseArbitraryStringSlice(stmt, ";")
RenderParse ==
    /\ render.phase = "parse"
    /\ render' = [render EXCEPT
                     !.phase = "loop",
                     !.parts = ParseArbitraryStringSlice(render.tpl, ";")]
    /\ UNCHANGED <<callers, legacy, mu, pc, loc, ctx, tx, trace, ret>>

\* the next part: trimmed, skipped when empty, else rendered
RenderQuery ==
    /\ render.phase = "loop"
    /\ render.qi < Len(render.parts)
    /\ LET query == TrimSpace(render.parts[render.qi + 1])
       IN  IF IsEmptyStatement(query)
           THEN render' = [render EXCEPT !.qi = render.qi + 1]
           ELSE \E q \in QueryHelper(query, render.queryMap) :
                   render' = [render EXCEPT !.qi = render.qi + 1,
                                            !.out = Append(render.out, q)]
    /\ UNCHANGED <<callers, legacy, mu, pc, loc, ctx, tx, trace, ret>>

\* no part is left
RenderEnd ==
    /\ render.phase = "loop"
    /\ render.qi = Len(render.parts)
    /\ render' = [render EXCEPT !.phase = "done"]
    /\ UNCHANGED <<callers, legacy, mu, pc, loc, ctx, tx, trace, ret>>

NextRender == RenderParse \/ RenderQuery \/ RenderEnd

SpecRender == InitRender /\ [][NextRender]_vars

(***************************************************************************)
(* generateUsername on its own, over display names and role names of every *)
(* length up to a bound that exceeds each budget.                           *)
(***************************************************************************)
\* the greatest length of a display name and of a role name
MaxNameLen == 15

\* a display name is a run of "d", a role name a run of "m"
NamesOf(c) == {[k \in 1..n |-> c] : n \in 0..MaxNameLen}

InitUsername ==
    /\ callers = {1}
    /\ legacy \in BOOLEAN
    /\ render = NoRender
    /\ mu = 0
    /\ ctx = [p \in Procs |-> "live"]
    /\ tx = [p \in Procs |-> NoTx]
    /\ trace = [p \in Procs |-> <<>>]
    /\ ret = [p \in Procs |-> NoResult]
    /\ pc = [p \in Procs |-> IF p = 1 THEN "generate" ELSE "idle"]
    /\ \E displayName \in NamesOf("d"), roleName \in NamesOf("m") :
          loc = [p \in Procs |->
                    IF p = 1
                    THEN [NoLocals EXCEPT
                             !.op = "generateUsername",
                             !.req = [DisplayName |-> displayName,
                                      RoleName |-> roleName]]
                    ELSE NoLocals]

\* username, err := m.generateUsername(req): the username, or the error of the
\* random source
GenerateUsernameCall(p) ==
    /\ pc[p] = "generate"
    /\ \E generated \in BOOLEAN :
          ret' = [ret EXCEPT ![p] =
                     IF generated
                     THEN [NoResult EXCEPT
                              !.username = generateUsername(loc[p].req.DisplayName,
                                                            loc[p].req.RoleName)]
                     ELSE [NoResult EXCEPT !.err = ErrGenerate]]
    /\ pc' = [pc EXCEPT ![p] = "done"]
    /\ UNCHANGED <<callers, legacy, render, mu, loc, ctx, tx, trace>>

NextUsername == \E p \in callers : GenerateUsernameCall(p)

SpecUsername == InitUsername /\ [][NextUsername]_vars

(***************************************************************************)
(* What the claims speak of.                                                *)
(***************************************************************************)
Done(p) == pc[p] = "done"

\* the calls of caller p among the given kinds, in order
Events(p, kinds) == SelectSeq(trace[p], LAMBDA e : e.call \in kinds)

Has(p, kind, res) ==
    \E k \in DOMAIN trace[p] : trace[p][k].call = kind /\ trace[p][k].res = res

Called(p, kind) == \E k \in DOMAIN trace[p] : trace[p][k].call = kind

\* the operation ran the batch executor, which began a transaction
RanBatch(p) == loc[p].op \in {"NewUser", "UpdateUser"} /\ Has(p, "BeginTx", NoError)

StatementEvents(p) == Events(p, {"Prepare", "Exec", "StmtExec"})

\* a statement failed: at prepare (other than error 1295) or at execution
Failure(e) ==
    \/ e.call = "Prepare" /\ e.res = ErrPrepare
    \/ e.call \in {"Exec", "StmtExec"} /\ e.res = ErrExec

FailedStatement(p) ==
    \E k \in DOMAIN StatementEvents(p) : Failure(StatementEvents(p)[k])

\* the effects of p's transaction that are visible in the database
Visible(p) == IF tx[p].applied THEN tx[p].log ELSE <<>>

RECURSIVE Concat(_)
Concat(ss) == IF ss = <<>> THEN <<>> ELSE Head(ss) \o Concat(Tail(ss))

\* the non-empty trimmed parts of every template, in template order and then in
\* the order of the parts
Parts(templates) ==
    Concat([k \in 1..Len(templates) |->
               SelectSeq(TrimAll(Split(templates[k], ";")),
                         LAMBDA q : q # <<>>)])

AnyOrder(data) == CHOOSE o \in KeyOrders(data) : TRUE

\* the statements a batch is to send, given its templates and its map
Rendered(templates, data) ==
    [k \in 1..Len(Parts(templates)) |->
        QueryHelperIn(Parts(templates)[k], data, AnyOrder(data))]

IsPrefix(s, t) == Len(s) <= Len(t) /\ SubSeq(t, 1, Len(s)) = s

(***************************************************************************)
(* C1.  A batch run by executePreparedStatementsWithMap is atomic.          *)
(***************************************************************************)
\* C1 as stated: once the operation has returned, if every statement succeeded
\* the transaction is committed and every statement's effect is visible; if a
\* statement failed the transaction is rolled back, nothing is visible and the
\* failing statement is the last one sent.
C1_Original ==
    \A p \in callers :
        (Done(p) /\ RanBatch(p)) =>
            /\ ~FailedStatement(p) =>
                  /\ tx[p].state = "committed"
                  /\ Visible(p) = Rendered(loc[p].statements, loc[p].queryMap)
            /\ FailedStatement(p) =>
                  /\ tx[p].state = "rolledback"
                  /\ Visible(p) = <<>>
                  /\ Failure(StatementEvents(p)[Len(StatementEvents(p))])

\* C1 amended: if every statement succeeded the commit is attempted, and when
\* the commit succeeds the transaction is committed, every statement's effect
\* is visible and no error is returned; if a statement failed the transaction
\* is rolled back, never committed, nothing is visible and the failing
\* statement is the last one sent.
C1_Atomic ==
    \A p \in callers :
        (Done(p) /\ RanBatch(p)) =>
            /\ ~FailedStatement(p) => Called(p, "Commit")
            /\ Has(p, "Commit", NoError) =>
                  /\ ~FailedStatement(p)
                  /\ tx[p].state = "committed"
                  /\ Visible(p) = Rendered(loc[p].statements, loc[p].queryMap)
                  /\ ret[p].err = NoError
            /\ ret[p].err = NoError /\ ~ret[p].panicked =>
                  Has(p, "Commit", NoError)
            /\ FailedStatement(p) =>
                  /\ ~Called(p, "Commit")
                  /\ tx[p].state = "rolledback"
                  /\ Visible(p) = <<>>
                  /\ Failure(StatementEvents(p)[Len(StatementEvents(p))])

\* a batch whose second or later statement failed after an earlier one had
\* been executed
C1_Witness ==
    \E p \in callers :
        /\ Done(p) /\ RanBatch(p) /\ FailedStatement(p)
        /\ Len(tx[p].log) >= 1
        /\ tx[p].state = "rolledback"

(***************************************************************************)
(* C2.  One transaction at a time on the shared handle.                     *)
(***************************************************************************)
OpenTransactions == {p \in callers : tx[p].state = "open"}

\* C2: under any interleaving of NewUser, UpdateUser and DeleteUser, at most
\* one of their transactions is open, and the caller that opened it holds the
\* lock: another begins only after it has been committed or rolled back.
C2_OneTransaction ==
    /\ Cardinality(OpenTransactions) <= 1
    /\ \A p \in callers : tx[p].state = "open" => mu = p

\* one caller's transaction is open after another's has been committed or
\* rolled back
C2_Witness ==
    \E p, q \in callers :
        /\ p # q
        /\ tx[p].state = "open"
        /\ tx[q].state \in {"committed", "rolledback"}

(***************************************************************************)
(* C3.  No transaction outlives the operation that began it.                *)
(***************************************************************************)
\* C3: when an operation that began a transaction has returned, on any exit
\* path, the transaction has been committed or a rollback has been attempted,
\* and the transaction is not open.
C3_NoTransactionLeft ==
    \A p \in callers :
        (Done(p) /\ Has(p, "BeginTx", NoError)) =>
            /\ Has(p, "Commit", NoError) \/ Called(p, "Rollback")
            /\ tx[p].state # "open"

\* an operation whose context was cancelled after it began its transaction
\* has returned
C3_Witness ==
    \E p \in callers :
        /\ Done(p) /\ Has(p, "BeginTx", NoError)
        /\ ctx[p] = "cancelled"
        /\ ret[p].err # NoError
        /\ tx[p].state = "rolledback"

(***************************************************************************)
(* C4.  The error of a direct execution after error 1295.                   *)
(***************************************************************************)
\* the prepare of a statement failed with error 1295 and its direct execution
\* failed
DirectExecutionFailed(p) ==
    \E k \in 1..(Len(StatementEvents(p)) - 1) :
        /\ StatementEvents(p)[k].call = "Prepare"
        /\ StatementEvents(p)[k].res = Err1295
        /\ StatementEvents(p)[k + 1].call = "Exec"
        /\ StatementEvents(p)[k + 1].res = ErrExec

\* C4: when the prepare fails with error 1295 and the direct execution then
\* fails, the operation returns that execution error as an error value, with
\* the transaction rolled back.
C4_DirectErrorReturned ==
    \A p \in callers :
        (Done(p) /\ DirectExecutionFailed(p)) =>
            /\ ~ret[p].panicked
            /\ ret[p].err = ErrExec
            /\ tx[p].state = "rolledback"

(***************************************************************************)
(* C5.  Validation errors come before any database interaction.             *)
(***************************************************************************)
InvalidRequest(p) ==
    \/ /\ loc[p].op = "NewUser"
       /\ Len(loc[p].req.Commands) = 0
    \/ /\ loc[p].op = "UpdateUser"
       /\ ~loc[p].req.Password.isNil
       /\ loc[p].req.Username = <<>> \/ loc[p].req.Password.NewPassword = <<>>
    \/ /\ loc[p].op = "UpdateUser"
       /\ loc[p].req.Password.isNil
       /\ ~loc[p].req.hasExpiration

\* C5: Create with no statement template, Rotate with an empty username or an
\* empty password, and Update with neither change return an error, and have
\* not taken the lock, called the connection provider or begun a transaction.
C5_ValidationFirst ==
    \A p \in callers :
        (loc[p].op # "none" /\ InvalidRequest(p)) =>
            /\ Done(p)
            /\ ret[p].err \in {ErrEmptyCreationStatement, ErrMissing, ErrNoChange}
            /\ trace[p] = <<>>
            /\ tx[p] = NoTx
            /\ mu # p

\* a rotation with an empty password has returned
C5_Witness ==
    \E p \in callers :
        /\ Done(p)
        /\ loc[p].op = "UpdateUser"
        /\ ~loc[p].req.Password.isNil
        /\ loc[p].req.Username # <<>>
        /\ loc[p].req.Password.NewPassword = <<>>
        /\ ret[p].err = ErrMissing

(***************************************************************************)
(* C6.  The fallback of the batch executor on a prepare error.              *)
(***************************************************************************)
\* C6: in the batch executor, a statement whose prepare fails with error 1295
\* is executed directly, once, as the very next call of the transaction, and
\* when that succeeds the batch goes on to prepare the next statement or to
\* commit; a statement whose prepare fails otherwise is never executed, is
\* the last one sent, and the operation rolls back, does not commit and
\* returns the prepare error.
C6_PrepareFallback ==
    \A p \in callers :
        loc[p].op \in {"NewUser", "UpdateUser"} =>
            LET sent == StatementEvents(p)
            IN  \A k \in DOMAIN sent :
                    /\ (sent[k].call = "Prepare" /\ sent[k].res = Err1295) =>
                          /\ Done(p) => k < Len(sent)
                          /\ k < Len(sent) =>
                                /\ sent[k + 1].call = "Exec"
                                /\ sent[k + 1].q = sent[k].q
                          /\ k + 1 < Len(sent) => sent[k + 2].call = "Prepare"
                          /\ (Done(p) /\ k + 1 = Len(sent)
                                /\ sent[k + 1].res = NoError) => Called(p, "Commit")
                    /\ (sent[k].call = "Prepare" /\ sent[k].res = ErrPrepare) =>
                          /\ k = Len(sent)
                          /\ ~Called(p, "Commit")
                          /\ Done(p) =>
                                /\ ret[p].err = ErrPrepare
                                /\ ~ret[p].panicked
                                /\ Called(p, "Rollback")
                                /\ tx[p].state = "rolledback"
                    /\ sent[k].call = "Exec" =>
                          k > 1 /\ sent[k - 1].call = "Prepare"
                                /\ sent[k - 1].res = Err1295

\* a statement was executed directly after error 1295, the batch went on with
\* the next statement, and the operation has returned
C6_Witness ==
    \E p \in callers :
        /\ Done(p) /\ loc[p].op = "NewUser"
        /\ \E k \in 1..(Len(StatementEvents(p)) - 2) :
              /\ StatementEvents(p)[k].res = Err1295
              /\ StatementEvents(p)[k + 1].res = NoError
              /\ StatementEvents(p)[k + 2].call = "Prepare"
              /\ StatementEvents(p)[k + 2].res = ErrPrepare

(***************************************************************************)
(* C7.  The default revocation statements.                                  *)
(***************************************************************************)
\* the two default statements for a username, as text
DefaultRevocation(username) ==
    << <<"REVOKE ALL PRIVILEGES, GRANT OPTION FROM '">> \o username \o <<"'@'%'">>,
       <<"DROP USER '">> \o username \o <<"'@'%'">> >>

\* C7: DeleteUser with no revocation template sends only the two default
\* statements, REVOKE then DROP, with the username supplied in place of every
\* {{name}}, each executed directly and never prepared; when no call fails it
\* executes both and then commits.
C7_DefaultRevocation ==
    \A p \in callers :
        (loc[p].op = "DeleteUser" /\ loc[p].req.Commands = <<>>) =>
            LET sent == StatementEvents(p)
                expected == DefaultRevocation(loc[p].req.Username)
            IN  /\ \A k \in DOMAIN sent : sent[k].call = "Exec"
                /\ IsPrefix([k \in DOMAIN sent |-> sent[k].q], expected)
                /\ (Called(p, "Commit") \/ (Done(p) /\ ret[p].err = NoError)) =>
                      /\ Len(sent) = 2
                      /\ tx[p].log = expected
                /\ (Done(p) /\ Has(p, "BeginTx", NoError) /\ ~FailedStatement(p)) =>
                      Called(p, "Commit")
                /\ (Done(p) /\ ret[p].err = NoError) =>
                      /\ Has(p, "Commit", NoError)
                      /\ Visible(p) = expected

\* a DeleteUser with no template and a username has committed
C7_Witness ==
    \E p \in callers :
        /\ Done(p) /\ loc[p].op = "DeleteUser"
        /\ loc[p].req.Commands = <<>>
        /\ loc[p].req.Username # <<>>
        /\ ret[p].err = NoError
        /\ Len(Visible(p)) = 2

(***************************************************************************)
(* C8.  Cancellation while waiting for the lock.                            *)
(***************************************************************************)
\* the context was cancelled before the caller had the lock
CancelledWaiting(p) ==
    \E k \in DOMAIN trace[p] :
        /\ trace[p][k].call = "Cancel"
        /\ \A j \in 1..(k - 1) : trace[p][j].call # "Lock"

Sent(p) ==
    LET first == Events(p, IF loc[p].op = "DeleteUser" THEN {"Exec"} ELSE {"Prepare"})
    IN  [k \in DOMAIN first |-> first[k].q]

\* the statements the operation is to send: the non-empty parts of its
\* templates in template order and then in the order of the parts, rendered
Expected(p) ==
    IF loc[p].op = "DeleteUser"
    THEN LET parts == Parts(IF loc[p].req.Commands = <<>>
                            THEN <<defaultMysqlRevocationStmts>>
                            ELSE loc[p].req.Commands)
         IN  [k \in DOMAIN parts |->
                 Replace(Replace(parts[k], Marker(KeyName), loc[p].req.Username),
                         Marker(KeyUsername), loc[p].req.Username)]
    ELSE Rendered(loc[p].statements, loc[p].queryMap)

\* C9: in Create, Rotate and Delete the statements reach the database in
\* template order and, within a template, in the order of its parts, the
\* empty parts being skipped; a batch that commits has sent them all.
C9_Order ==
    \A p \in callers :
        loc[p].op # "none" =>
            /\ IsPrefix(Sent(p), Expected(p))
            /\ Called(p, "Commit") => Sent(p) = Expected(p)
            /\ \A k \in DOMAIN Sent(p) : Sent(p)[k] # <<>>

\* a Create with two templates, the first of which has empty parts, has sent
\* its three statements and committed
C9_Witness ==
    \E p \in callers :
        /\ Done(p) /\ loc[p].op = "NewUser"
        /\ Len(loc[p].statements) = 2
        /\ Len(Sent(p)) = 3
        /\ Has(p, "Commit", NoError)

(***************************************************************************)
(* C10.  What rendering leaves of the {{...}} markers.                      *)
(***************************************************************************)
\* a {{ followed, after some text, by a }}
HasMarker(s) ==
    \E i, j \in 1..(Len(s) - 1) :
        /\ i + 2 <= j
        /\ s[i] = "{" /\ s[i + 1] = "{"
        /\ s[j] = "}" /\ s[j + 1] = "}"

HasBrace(s) == \E i \in DOMAIN s : s[i] \in {"{", "}"}

\* the number of occurrences of a marker in a text
RECURSIVE Count(_, _)
Count(s, pat) ==
    IF Len(s) < Len(pat) THEN 0
    ELSE IF HasPrefix(s, pat) THEN 1 + Count(SubSeq(s, Len(pat) + 1, Len(s)), pat)
    ELSE Count(Tail(s), pat)

RECURSIVE CountAll(_, _)
CountAll(ss, pat) ==
    IF ss = <<>> THEN 0 ELSE Count(Head(ss), pat) + CountAll(Tail(ss), pat)

\* the template with every placeholder whose key is in the map blotted out
RECURSIVE Blot(_, _)
Blot(tpl, keys) ==
    IF keys = {} THEN tpl
    ELSE LET k == CHOOSE k \in keys : TRUE
         IN  Blot(Replace(tpl, Marker(k), <<"#">>), keys \ {k})

\* every placeholder of the template has its key in the map
PlaceholdersMapped(tpl, data) == ~HasMarker(Blot(tpl, DOMAIN data))

\* the keys a template may name that a map lacks
AbsentKeys(op) ==
    IF op = "NewUser" THEN {KeyOther} ELSE {KeyExpiration, KeyOther}

\* a placeholder whose key the map lacks stays where it is, verbatim
AbsentKept(r) ==
    \A key \in AbsentKeys(r.op) :
        /\ CountAll(r.out, Marker(key)) >= Count(r.tpl, Marker(key))
        /\ (\A k \in DOMAIN r.queryMap : ~HasBrace(r.queryMap[k])) =>
              CountAll(r.out, Marker(key)) = Count(r.tpl, Marker(key))

\* C10 as stated: a template whose placeholders are all keys of the map
\* renders to statements with no {{...}} marker; a placeholder whose key the
\* map lacks is left verbatim.
C10_Original ==
    render.phase = "done" =>
        /\ PlaceholdersMapped(render.tpl, render.queryMap) =>
              \A k \in DOMAIN render.out : ~HasMarker(render.out[k])
        /\ AbsentKept(render)

\* C10 amended: a template whose every brace belongs to a placeholder with a
\* key of the map, rendered with values that hold no brace, yields statements
\* with no brace, hence no {{...}} marker; a placeholder whose key the map
\* lacks (as {{expiration}} in a rotation) is left verbatim.
C10_Markers ==
    render.phase = "done" =>
        /\ (/\ ~HasBrace(Blot(render.tpl, DOMAIN render.queryMap))
            /\ \A k \in DOMAIN render.queryMap : ~HasBrace(render.queryMap[k])) =>
              \A k \in DOMAIN render.out : ~HasBrace(render.out[k])
        /\ AbsentKept(render)

\* a rotation template with {{password}} and {{expiration}} has been rendered
C10_Witness ==
    /\ render.phase = "done"
    /\ render.op = "UpdateUser"
    /\ Count(render.tpl, Marker(KeyPassword)) = 1
    /\ Count(render.tpl, Marker(KeyExpiration)) = 1
    /\ render.queryMap[KeyPassword] = <<"p", "w">>
    /\ Len(render.out) = 2
    /\ CountAll(render.out, Marker(KeyExpiration)) = 1
    /\ CountAll(render.out, Marker(KeyPassword)) = 0

(***************************************************************************)
(* C11.  A template of whitespace and semicolons yields no statement.       *)
(***************************************************************************)
\* the text is empty or holds only whitespace and semicolons
Blank(t) == \A i \in DOMAIN t : t[i] \in {" ", "\n", "\t", ";"}

\* the templates the request of caller p carries
RequestTemplates(p) ==
    IF loc[p].op = "UpdateUser"
    THEN IF loc[p].req.Password.isNil THEN <<>> ELSE loc[p].req.Password.Commands
    ELSE loc[p].req.Commands

AllBlank(p) ==
    /\ loc[p].op # "none"
    /\ RequestTemplates(p) # <<>>
    /\ \A k \in DOMAIN RequestTemplates(p) : Blank(RequestTemplates(p)[k])

\* C11: an operation whose templates are all empty or made only of whitespace
\* and semicolons prepares and executes no statement: its transaction holds
\* none, and when no call fails it goes straight from the begin to the commit.
C11_BlankTemplate ==
    \A p \in callers :
        AllBlank(p) =>
            /\ StatementEvents(p) = <<>>
            /\ ~Called(p, "Close")
            /\ tx[p].log = <<>>
            /\ pc[p] \notin {"prepare", "direct", "stmtexec", "close", "errclose",
                             "d_exec"}
            /\ (Done(p) /\ Has(p, "BeginTx", NoError)) => Called(p, "Commit")

\* a Create or a Delete whose templates are blank has begun a transaction,
\* sent nothing and committed
C11_Witness ==
    \E p \in callers :
        /\ Done(p) /\ AllBlank(p)
        /\ loc[p].op \in {"NewUser", "DeleteUser"}
        /\ Has(p, "Commit", NoError)
        /\ ret[p].err = NoError

(***************************************************************************)
(* C12.  The length of a generated username.                                *)
(***************************************************************************)
\* the number of atoms c in a text
Occurrences(s, c) == Cardinality({i \in DOMAIN s : s[i] = c})

TotalBudget == IF legacy THEN 16 ELSE 32
DisplayBudget == IF legacy THEN 5 ELSE 13
MetadataBudget == IF legacy THEN 4 ELSE 10

Min(a, b) == IF a < b THEN a ELSE b

\* C12: whatever the lengths of the display name and of the role name, a
\* generated username is at most 32 characters long on a modern instance and
\* 16 on a legacy one, it holds the display name cut to 13 (legacy 5)
\* characters and the role name cut to 10 (legacy 4), and the only error is
\* that of the random source: a name that is too long is cut, not refused.
C12_UsernameLength ==
    \A p \in callers :
        (Done(p) /\ loc[p].op = "generateUsername") =>
            LET req == loc[p].req
                username == ret[p].username
            IN  /\ ret[p].err \in {NoError, ErrGenerate}
                /\ ret[p].err = NoError =>
                      /\ username # <<>>
                      /\ Len(username) <= TotalBudget
                      /\ Occurrences(username, "d")
                            = Min(Len(req.DisplayName), DisplayBudget)
                      /\ Occurrences(username, "m")
                            = Min(Len(req.RoleName), MetadataBudget)
                /\ ret[p].err # NoError => username = <<>>

\* a legacy instance was given a display name and a role name longer than
\* the modern budgets and returned a username of 16 characters
C12_Witness ==
    \E p \in callers :
        /\ Done(p) /\ loc[p].op = "generateUsername"
        /\ legacy
        /\ Len(loc[p].req.DisplayName) > 13
        /\ Len(loc[p].req.RoleName) > 10
        /\ ret[p].err = NoError
        /\ Len(ret[p].username) = 16

(***************************************************************************)
(* C13.  UpdateUser touches the database only for a password change.       *)
(***************************************************************************)
\* the arguments of the batch a rotation runs for a request
RotationOf(req) ==
    [statements |-> IF req.Password.Commands = <<>>
                    THEN <<defaultMySQLRotateCredentialsSQL>>
                    ELSE req.Password.Commands,
     queryMap |-> (KeyName :> req.Username) @@ (KeyUsername :> req.Username)
                     @@ (KeyPassword :> req.Password.NewPassword)]

\* C13: an UpdateUser that carries only an expiration change has returned
\* success without taking the lock, calling the connection provider or
\* beginning a transaction; one that carries a password change, with or
\* without an expiration change, takes the rotation path: it is refused for an
\* empty username or password and else runs the batch of the rotation, taking
\* the lock and calling the connection provider before it returns.
C13_UpdateUser ==
    \A p \in callers :
        loc[p].op = "UpdateUser" =>
            LET req == loc[p].req
            IN  /\ (req.Password.isNil /\ req.hasExpiration) =>
                      /\ Done(p)
                      /\ ret[p] = NoResult
                      /\ trace[p] = <<>>
                      /\ tx[p] = NoTx
                      /\ mu # p
                /\ ~req.Password.isNil =>
                      IF req.Username = <<>> \/ req.Password.NewPassword = <<>>
                      THEN Done(p) /\ ret[p].err = ErrMissing /\ trace[p] = <<>>
                      ELSE /\ loc[p].statements = RotationOf(req).statements
                           /\ loc[p].queryMap = RotationOf(req).queryMap
                           /\ Done(p) =>
                                 /\ Called(p, "Lock")
                                 /\ Called(p, "Connection")
                                 /\ (ret[p].err = NoError /\ ~ret[p].panicked) =>
                                       Has(p, "Commit", NoError)

\* an UpdateUser with an expiration change and no password change has
\* returned
C13_Witness ==
    \E p \in callers :
        /\ Done(p) /\ loc[p].op = "UpdateUser"
        /\ loc[p].req.Password.isNil
        /\ loc[p].req.hasExpiration
        /\ ret[p].err = NoError
        /\ trace[p] = <<>>

(***************************************************************************)
(* C14.  One call of the connection provider for each operation.            *)
(***************************************************************************)
ConnectionCalls(p) == Len(Events(p, {"Connection"}))

\* the operation was not refused for its arguments and had its username
PassedValidation(p) ==
    /\ loc[p].op # "none"
    /\ ~InvalidRequest(p)
    /\ ret[p].err # ErrGenerate

ExpirationOnly(p) ==
    /\ loc[p].op = "UpdateUser"
    /\ loc[p].req.Password.isNil
    /\ loc[p].req.hasExpiration

\* what a failed call of the connection provider leaves: no transaction, no
\* statement, and once the operation has returned the lock is free
ConnectionFailureLeaves(p) ==
    /\ ~Called(p, "BeginTx")
    /\ StatementEvents(p) = <<>>
    /\ tx[p] = NoTx
    /\ Done(p) =>
          /\ ret[p].err = ErrConnection
          /\ ~ret[p].panicked
          /\ trace[p][Len(trace[p])].call = "Unlock"
          /\ mu # p

AccountPassword(p) ==
    IF loc[p].op = "NewUser" THEN loc[p].req.Password
    ELSE IF loc[p].op = "UpdateUser" /\ ~loc[p].req.Password.isNil
    THEN loc[p].req.Password.NewPassword
    ELSE <<>>

\* C15: the text of an error that Create or Rotate has returned does not hold
\* the account password, even when the driver's error for the failing
\* statement quotes the statement.
C15_NoPasswordInError ==
    \A p \in callers :
        (/\ Done(p)
         /\ loc[p].op \in {"NewUser", "UpdateUser"}
         /\ AccountPassword(p) # <<>>
         /\ ret[p].err # NoError) =>
            ~Contains(ret[p].text, AccountPassword(p))

(***************************************************************************)
(* C16.  DeleteUser and an empty username.                                  *)
(***************************************************************************)
\* C16: a DeleteUser whose username is empty executes no revocation
\* statement: none is sent to the database and its transaction holds none.
C16_UsernameRequired ==
    \A p \in callers :
        (loc[p].op = "DeleteUser" /\ loc[p].req.Username = <<>>) =>
            /\ StatementEvents(p) = <<>>
            /\ tx[p].log = <<>>

(***************************************************************************)
(* C17.  The lock is released on every exit path.                           *)
(***************************************************************************)
WaitsForLock(p) == pc[p] \in {"lock", "d_lock"}

UnlockCalls(p) == Len(Events(p, {"Unlock"}))

\* an operation that took the lock and has returned released it, once and as
\* its last call; when it releases the lock its transaction, if it began one,
\* has been committed or rolled back; a caller holds the lock from its Lock to
\* its Unlock
LockReleased ==
    \A p \in callers :
        /\ (Done(p) /\ Called(p, "Lock")) =>
              /\ mu # p
              /\ UnlockCalls(p) = 1
              /\ trace[p][Len(trace[p])].call = "Unlock"
        /\ Called(p, "Unlock") =>
              /\ Done(p)
              /\ tx[p].state # "open"
              /\ Has(p, "BeginTx", NoError) =>
                    Has(p, "Commit", NoError) \/ Called(p, "Rollback")
        /\ tx[p].state = "open" => mu = p
        /\ mu = p <=> (Called(p, "Lock") /\ ~Called(p, "Unlock"))

\* CanProgress is the enabling condition of the steps of a caller
EnablingCondition ==
    \A p \in callers : CanProgress(p) <=> ENABLED <<Progress(p)>>_vars

\* while an operation is under way, some caller can take a step
NoDeadlock ==
    (\E p \in callers : pc[p] \notin {"idle", "done"}) =>
        \E q \in callers : CanProgress(q)

\* C17: an operation that took the lock releases it on every exit path, and
\* only once its transaction has been committed or rolled back; no state in
\* which an operation is under way is a deadlock, and, every call on the lock
\* and on the database returning, a caller that waits for the lock comes to
\* hold it.
C17_LockReleased ==
    /\ [](LockReleased /\ EnablingCondition /\ NoDeadlock)
    /\ \A p \in Procs : WaitsForLock(p) ~> (mu = p)

\* two callers have run one after the other and both have released the lock,
\* one after a cancellation that rolled its transaction back, the other after
\* an error
C17_Witness ==
    \E p, q \in callers :
        /\ p # q
        /\ Done(p) /\ Done(q)
        /\ Called(p, "Unlock") /\ Called(q, "Unlock")
        /\ Has(p, "BeginTx", NoError) /\ ctx[p] = "cancelled"
        /\ tx[p].state = "rolledback"
        /\ ret[q].err # NoError
        /\ mu = 0

(***************************************************************************)
(* C18.  A prepared statement is closed once, before the transaction ends.  *)
(***************************************************************************)
\* the calls of caller p on its transaction and its statements
BatchCalls(p) ==
    Events(p, {"Prepare", "Exec", "StmtExec", "Close", "Commit", "Rollback"})

\* every statement that was prepared is executed and then closed, as the next
\* two calls, whether the execution succeeds or fails; nothing else is closed
\* with success; and no statement is open once the operation has returned
ClosedOnce(p) ==
    LET calls == BatchCalls(p)
    IN  /\ \A k \in DOMAIN calls :
              /\ (calls[k].call = "Prepare" /\ calls[k].res = NoError) =>
                    /\ Done(p) => k + 2 <= Len(calls)
                    /\ k + 1 <= Len(calls) =>
                          calls[k + 1].call = "StmtExec" /\ calls[k + 1].q = calls[k].q
                    /\ k + 2 <= Len(calls) =>
                          /\ calls[k + 2] = Event("Close", calls[k].q, NoError)
                          /\ k + 3 <= Len(calls) => calls[k + 3].call # "Close"
              /\ (calls[k].call = "Close" /\ calls[k].res = NoError) =>
                    /\ k > 2
                    /\ calls[k - 2].call = "Prepare" /\ calls[k - 2].res = NoError
        /\ loc[p].stmt = "open" <=>
              (/\ calls # <<>>
               /\ \/ calls[Len(calls)].call = "StmtExec"
                  \/ calls[Len(calls)].call = "Prepare"
                       /\ calls[Len(calls)].res = NoError)
        /\ Done(p) => loc[p].stmt # "open"

\* C18 as stated: in the batch executor a prepared statement is closed exactly
\* once, whether its execution succeeds or fails, no statement is open once
\* the operation has returned, and while a statement is open the transaction
\* has been neither committed nor rolled back.
C18_Original ==
    \A p \in callers :
        loc[p].op \in {"NewUser", "UpdateUser"} =>
            /\ ClosedOnce(p)
            /\ loc[p].stmt = "open" => tx[p].state = "open"

\* C18 amended: in the batch executor a prepared statement is closed exactly
\* once, whether its execution succeeds or fails, no statement is open once
\* the operation has returned, and while a statement is open the operation
\* has called neither Commit nor Rollback; the transaction is then open,
\* unless the context was cancelled, for then database/sql may have rolled it
\* back already.
C18_StatementClosed ==
    \A p \in callers :
        loc[p].op \in {"NewUser", "UpdateUser"} =>
            /\ ClosedOnce(p)
            /\ loc[p].stmt = "open" =>
                  /\ ~Called(p, "Commit")
                  /\ ~Called(p, "Rollback")
                  /\ \/ tx[p].state = "open"
                     \/ tx[p].state = "rolledback" /\ ctx[p] = "cancelled"

\* a batch closed the statement of an execution that succeeded and that of
\* one that failed, and has returned
C18_Witness ==
    \E p \in callers :
        /\ Done(p) /\ loc[p].op = "NewUser"
        /\ Has(p, "StmtExec", NoError)
        /\ Has(p, "StmtExec", ErrExec)
        /\ Len(Events(p, {"Close"})) = 2
        /\ loc[p].stmt = "closed"
        /\ tx[p].state = "rolledback"

(***************************************************************************)
(* C19.  What NewUser returns.                                              *)
(***************************************************************************)
\* the batch of caller p ended with a commit that succeeded
Committed(p) == Has(p, "Commit", NoError)

\* C19: NewUser returns a non-empty username, the generated one, only when
\* the transaction of its batch was committed with success; on every failure
\* (validation, username generation, connection, begin, prepare, execution,
\* commit) it returns an error and an empty username; and the map the batch
\* used binds name and username to the generated username.
C19_NewUserResult ==
    \A p \in callers :
        (Done(p) /\ loc[p].op = "NewUser") =>
            /\ ret[p].username # <<>> =>
                  /\ Committed(p)
                  /\ ret[p].err = NoError
                  /\ ret[p].username = loc[p].username
            /\ ~Committed(p) =>
                  /\ ~ret[p].panicked
                  /\ ret[p].err # NoError
                  /\ ret[p].username = <<>>
            /\ Called(p, "Lock") =>
                  /\ loc[p].username # <<>>
                  /\ loc[p].queryMap[KeyName] = loc[p].username
                  /\ loc[p].queryMap[KeyUsername] = loc[p].username

(***************************************************************************)
(* C20.  Substituted values do not change the statement boundaries.         *)
(***************************************************************************)
\* the templates of the operation of caller p
TemplatesOfCaller(p) ==
    IF loc[p].op = "DeleteUser"
    THEN RevocationStmts(loc[p].req.Commands)
    ELSE loc[p].statements

\* the values the operation of caller p substitutes, by key
ValuesOfCaller(p) ==
    IF loc[p].op = "DeleteUser"
    THEN (KeyName :> loc[p].req.Username) @@ (KeyUsername :> loc[p].req.Username)
    ELSE loc[p].queryMap

\* the statements a part can become under those values
RenderingsOf(p, part) ==
    IF loc[p].op = "DeleteUser"
    THEN {DeleteQuery(part, loc[p].req.Username)}
    ELSE QueryHelper(part, loc[p].queryMap)

\* C20: the number of statements Create, Rotate and Delete send, and the part
\* of the templates each one is rendered from, are those of the non-empty
\* parts of the templates split on ';', whatever the values: the k-th statement
\* sent is a rendering of the k-th part, a batch that reaches its commit has
\* sent as many statements as there are parts, and a value whose placeholder
\* is in a part is whole inside the statement of that part, a ';' in it
\* included.
C20_Boundaries ==
    \A p \in callers :
        loc[p].op \in {"NewUser", "UpdateUser", "DeleteUser"} =>
            LET parts == Parts(TemplatesOfCaller(p))
            IN  /\ Len(Sent(p)) <= Len(parts)
                /\ Called(p, "Commit") => Len(Sent(p)) = Len(parts)
                /\ \A k \in DOMAIN Sent(p) :
                      /\ Sent(p)[k] \in RenderingsOf(p, parts[k])
                      /\ \A key \in DOMAIN ValuesOfCaller(p) :
                            Contains(parts[k], Marker(key)) =>
                                Contains(Sent(p)[k], ValuesOfCaller(p)[key])

\* a Create whose password holds a ';' has sent the two statements of its
\* template, the first with the password in it, and committed
C20_Witness ==
    \E p \in callers :
        /\ Done(p) /\ loc[p].op = "NewUser"
        /\ loc[p].req.Commands = <<tCreateGrant>>
        /\ loc[p].req.Password = <<"p", ";", "w">>
        /\ Len(Sent(p)) = 2
        /\ Contains(Sent(p)[1], <<"p", ";", "w">>)
        /\ Has(p, "Commit", NoError)

=============================================================================
